---------------------------- MODULE Spec2Model ----------------------------
(***************************************************************************)
(* A model of src/index.js: the session manager (login, login retry,       *)
(* listener start, reconnect policy, /configure) and the event dispatcher  *)
(* with the message handler and the title / nickname lock commands.        *)
(*                                                                         *)
(* Two specifications share the variables:                                 *)
(*   Spec      the session manager; the lock policy is left alone.         *)
(*   SpecEv    the event dispatcher of one connected session; the session  *)
(*             variables are left alone.                                   *)
(*                                                                         *)
(* index.js is cut off in the middle of line 544 (handleNicknameCommand's  *)
(* `off` branch).  The handlers called by the dispatcher for               *)
(* log:thread-name and log:user-nickname are therefore not in src/; they   *)
(* are modelled from spec.md section 4.3 and marked as such.               *)
(***************************************************************************)
EXTENDS Naturals, Integers, Sequences, FiniteSets, TLC

(***************************************************************************)
(* Text.  JavaScript strings are TLA+ strings; a character is a string of  *)
(* length one.                                                             *)
(***************************************************************************)
CharAt(s, i) == SubSeq(s, i, i)

UpperChars == "ABCDEFGHIJKLMNOPQRSTUVWXYZ"

LowerChars == "abcdefghijklmnopqrstuvwxyz"

UpperSet == { CharAt(UpperChars, i) : i \in 1..Len(UpperChars) }

LowerOf ==
  [c \in UpperSet |->
     CharAt(LowerChars, CHOOSE i \in 1..Len(UpperChars) : CharAt(UpperChars, i) = c)]

\* String.prototype.toLowerCase on one character.
LowerChar(c) == IF c \in UpperSet THEN LowerOf[c] ELSE c

\* String.prototype.toLowerCase.
RECURSIVE ToLowerCase(_)
ToLowerCase(s) ==
  IF Len(s) = 0 THEN "" ELSE LowerChar(CharAt(s, 1)) \o ToLowerCase(Tail(s))

\* String.prototype.startsWith.
StartsWith(s, p) == Len(p) <= Len(s) /\ SubSeq(s, 1, Len(p)) = p

\* String.prototype.includes.
Includes(s, sub) ==
  \E i \in 1..(Len(s) + 1) :
    i + Len(sub) - 1 <= Len(s) /\ SubSeq(s, i, i + Len(sub) - 1) = sub

\* String.prototype.slice(n), 0 <= n.
SliceFrom(s, n) == IF n >= Len(s) THEN "" ELSE SubSeq(s, n + 1, Len(s))

\* String.prototype.trim (the only white space of the model is the blank).
RECURSIVE TrimStart(_)
TrimStart(s) ==
  IF Len(s) > 0 /\ CharAt(s, 1) = " " THEN TrimStart(Tail(s)) ELSE s

RECURSIVE TrimEnd(_)
TrimEnd(s) ==
  IF Len(s) > 0 /\ CharAt(s, Len(s)) = " "
    THEN TrimEnd(SubSeq(s, 1, Len(s) - 1))
    ELSE s

Trim(s) == TrimEnd(TrimStart(s))

\* String.prototype.split(/ +/): the pieces between maximal runs of blanks.
\* `cur` is the piece being read; "".split(/ +/) is [""].
RECURSIVE SplitFrom(_, _)
SplitFrom(s, cur) ==
  IF Len(s) = 0 THEN <<cur>>
  ELSE IF CharAt(s, 1) = " "
    THEN <<cur>> \o SplitFrom(TrimStart(s), "")
    ELSE SplitFrom(Tail(s), cur \o CharAt(s, 1))

SplitBlanks(s) == SplitFrom(s, "")

\* Array.prototype.join(' ').
RECURSIVE JoinBlank(_)
JoinBlank(a) ==
  IF Len(a) = 0 THEN ""
  ELSE IF Len(a) = 1 THEN a[1]
  ELSE a[1] \o " " \o JoinBlank(Tail(a))

\* `args.shift() || ''` : the value taken, and what is left of the array.
ShiftOrEmpty(a) == IF Len(a) = 0 THEN "" ELSE a[1]

ShiftRest(a) == IF Len(a) = 0 THEN <<>> ELSE Tail(a)

(***************************************************************************)
(* The state.                                                              *)
(***************************************************************************)
VARIABLES
  \* index.js 28-44: the globals of the session manager
  botAPI,            \* the live handle, NoApi for null
  adminID,           \* the admin identifier, "" for null
  prefix,            \* the command prefix
  currentCookies,    \* the last credential blob, "" for null
  reconnectAttempt,  \* the reconnect counter
  joinedGroups,      \* the set of the groups the session is a member of (37)
  savers,            \* the intervals of saveCookies that are active (44, 76)
  configFile,        \* config.json: [cookies, prefix, adminID], "" for what is absent
  \* callbacks that are scheduled and have not run yet
  logins,            \* login() calls in flight: credential blob -> how many
  retryTimers,       \* pending 10 s login-retry timers (line 90)
  settleTimers,      \* handles whose 5 s settle timer is pending (line 110)
  restartTimers,     \* pending 5 s listener-restart timers (line 176)
  listeners,         \* handle -> number of listenMqtt subscriptions that are live
  handles,           \* how many handles login() has handed out
  op,                \* the step of the session manager taken last
  \* index.js 33-34: the lock policy
  lockedGroups,      \* thread -> locked title (a JS object: its keys are the domain)
  lockedNicknames,   \* thread -> [default, users]
  \* the event handled in the step taken last and what its handler did
  ev,                \* the event, NoEvent when the step handled none
  calls,             \* the handlers entered for it, in order
  out,               \* the transport calls issued for it, in order
  running,           \* the handlers that wait at an await, in order of arrival
  \* history: the <<field, thread>> locks an `off` command removed, until the
  \* field of that thread is locked again
  released

sessionVars ==
  <<botAPI, adminID, prefix, currentCookies, reconnectAttempt, joinedGroups, savers,
    configFile, logins,
    retryTimers, settleTimers, restartTimers, listeners, handles, op>>

policyVars == <<lockedGroups, lockedNicknames>>

eventVars == <<ev, calls, out, released, running>>

vars == <<sessionVars, policyVars, eventVars>>

(***************************************************************************)
(* The inputs of the event dispatcher.                                     *)
(***************************************************************************)
\* The identifiers of the users; the first is the admin of SpecEv.
Users == {"u1", "u2", "u3"}

Threads == {"t1", "t2"}

\* The texts of the chat messages the model receives.
Bodies ==
  { "", "hello", " Bot ", "robot", "hi MKC", "group on A",
    "/", "/tid", "/UID", "/xyz",
    "/group", "/group on", "/group on A", "/Group ON  A  B ", "/group on mkc",
    "/group off", "/group OFF", "/group foo", "!group on A",
    "/nickname on N", "/NICKNAME On  M", "/nickname on", "/nickname off" }

\* The texts the second thread receives: the title lock commands.
LockBodies == { "hello", "/group on A", "/group off" }

\* The texts of the messages that carry mentions, and the sets of mentioned
\* users they carry (Object.keys(event.mentions)).
MentioningBodies == { "hello", "hi MKC", "/group on A" }

MentionSets == { {"u1"}, {"u2"} }

\* The users that write messages, and the texts of the replies to a message.
Senders == {"u1", "u2"}

ReplyBodies == { "hello", "/group on A" }

\* The titles and nicknames the platform reports in its change events.
Titles == {"A", "A B", "X"}

Nicknames == {"N", "X"}

\* The participant lists api.getThreadInfo returns.
ParticipantLists == { <<"u1", "u2", "u3">>, <<"u2", "u3">>, <<>> }

NoEvent ==
  [type |-> "none", logMessageType |-> "", threadID |-> "", senderID |-> "",
   body |-> "", mentions |-> {}, name |-> "", participant |-> "", nickname |-> "",
   added |-> {}]

MessageEvents ==
  { [NoEvent EXCEPT !.type = "message", !.threadID = "t1", !.senderID = u, !.body = b] :
      u \in Senders, b \in Bodies }
  \cup
  { [NoEvent EXCEPT !.type = "message", !.threadID = "t2", !.senderID = u, !.body = b] :
      u \in Senders, b \in LockBodies }
  \cup
  { [NoEvent EXCEPT !.type = "message", !.threadID = "t1", !.senderID = u, !.body = b,
                    !.mentions = m] :
      u \in Senders, b \in MentioningBodies, m \in MentionSets }
  \cup
  { [NoEvent EXCEPT !.type = "message_reply", !.threadID = "t1", !.senderID = u,
                    !.body = b] :
      u \in Senders, b \in ReplyBodies }

ThreadNameEvents ==
  { [NoEvent EXCEPT !.type = "event", !.logMessageType = "log:thread-name",
                    !.threadID = t, !.senderID = "u2", !.name = n] :
      t \in Threads, n \in Titles }

NicknameEvents ==
  { [NoEvent EXCEPT !.type = "event", !.logMessageType = "log:user-nickname",
                    !.threadID = t, !.senderID = "u2", !.participant = p,
                    !.nickname = n] :
      t \in Threads, p \in Users, n \in Nicknames }

\* api.getCurrentUserID(): the identifier of the session's own account.
BotID == "bot"

\* log:subscribe events, with the userFbId of logMessageData.addedParticipants.
SubscribeEvents ==
  { [NoEvent EXCEPT !.type = "event", !.logMessageType = "log:subscribe",
                    !.threadID = t, !.senderID = "u2", !.added = a] :
      t \in Threads, a \in { {BotID}, {"u3"}, {BotID, "u3"} } }

\* Events no branch of the dispatcher takes.
OtherEvents ==
  { [NoEvent EXCEPT !.type = ty, !.logMessageType = "log:unsubscribe", !.threadID = t] :
      ty \in {"event", "typ"}, t \in {"t1"} }

Events ==
  MessageEvents \cup ThreadNameEvents \cup NicknameEvents \cup SubscribeEvents
    \cup OtherEvents

(***************************************************************************)
(* The transport calls a handler issues.  `ok` tells whether the call's    *)
(* promise was fulfilled (TRUE) or rejected (FALSE); the environment       *)
(* decides.                                                                *)
(***************************************************************************)
Call(o, t, a, w, k) ==
  [op |-> o, thread |-> t, arg |-> a, who |-> w, ok |-> k, parts |-> <<>>]

\* formatMessage (325-350) followed by api.sendMessage: the main text, and the
\* sender as the one mention.  The sender's display name (api.getUserInfo, with
\* 'User' when the call fails) decorates the text only.
Sent(e, text, k) == Call("sendMessage", e.threadID, text, e.senderID, k)

\* api.sendMessage of a bare string (520).
SentPlain(t, text, k) == Call("sendMessage", t, text, "", k)

SetTitle(name, t, k) == Call("setTitle", t, name, "", k)

ChangeNickname(nick, t, pid, k) == Call("changeNickname", t, nick, pid, k)

GetThreadInfo(t, ps, k) ==
  [op |-> "getThreadInfo", thread |-> t, arg |-> "", who |-> "", ok |-> k, parts |-> ps]

\* The JS objects lockedGroups and lockedNicknames: obj[k] = v and delete obj[k].
Put(obj, k, v) == [j \in DOMAIN obj \cup {k} |-> IF j = k THEN v ELSE obj[j]]

Delete(obj, k) == [j \in DOMAIN obj \ {k} |-> obj[j]]

EmptyObject == [j \in {} |-> ""]

(***************************************************************************)
(* handleMessage, step 2 (373-404): the reply texts the fixed phrases      *)
(* select; the empty set when no phrase matches.  The texts are named, not *)
(* quoted.                                                                 *)
(***************************************************************************)
BotResponses == { "BOT-1", "BOT-2", "BOT-3", "BOT-4", "BOT-5", "BOT-6", "BOT-7", "BOT-8" }

AutoReply(body) ==
  LET lowerCaseBody == ToLowerCase(body) IN
  IF Includes(lowerCaseBody, "mkc") THEN {"REPLY-MKC"}
  ELSE IF Includes(lowerCaseBody, "teri maa chod dunga") THEN {"REPLY-TMCD"}
  ELSE IF Includes(lowerCaseBody, "chutiya") THEN {"REPLY-CHUTIYA"}
  ELSE IF Includes(lowerCaseBody, "boxdika") THEN {"REPLY-BOXDIKA"}
  ELSE IF Trim(lowerCaseBody) = "bot" THEN BotResponses
  ELSE {}

(***************************************************************************)
(* handleGroupCommand (492-522).  The result is the set of outcomes: the   *)
(* new lockedGroups and the calls issued.  Every reply is awaited inside   *)
(* the try block, so a rejected send is caught at 518 and followed by the  *)
(* plain notice of line 520, whose own failure is ignored.                 *)
(***************************************************************************)
GroupReply(lg, e, before, text) ==
  { [lg |-> lg, out |-> before \o <<Sent(e, text, TRUE)>>] }
  \cup
  { [lg |-> lg,
     out |-> before \o <<Sent(e, text, FALSE), SentPlain(e.threadID, "GROUP-ERROR", k)>>] :
       k \in BOOLEAN }

\* A mutant of LockTitle: the name is stored case-folded, as the command is.
LockTitleCaseFolded(lg, t, groupName) == Put(lg, t, ToLowerCase(groupName))

\* 506: lockedGroups[threadID] = groupName
LockTitle(lg, t, groupName) == Put(lg, t, groupName)

\* A mutant of UnlockTitle: the entry is not deleted.
UnlockTitleKeepsEntry(lg, t) == lg

\* 511: delete lockedGroups[threadID]
UnlockTitle(lg, t) == Delete(lg, t)

\* A mutant of AfterSetTitle: a rejected setTitle takes the lock back.
AfterSetTitleRollback(before, locked, k) == IF k THEN locked ELSE before

\* 507: a rejected setTitle is logged by its .catch; lockedGroups stays as 506
\* wrote it.
AfterSetTitle(before, locked, k) == locked

HandleGroupCommand(lg, e, args, isAdmin) ==
  LET threadID == e.threadID IN
  IF ~isAdmin THEN GroupReply(lg, e, <<>>, "DENIED")
  ELSE
    LET subCommand == ToLowerCase(ShiftOrEmpty(args))
        rest == ShiftRest(args)
    IN
    IF subCommand = "on" THEN
      LET groupName == Trim(JoinBlank(rest)) IN
      IF groupName = "" THEN GroupReply(lg, e, <<>>, "GROUP-ON-USAGE")
      ELSE
        UNION { GroupReply(AfterSetTitle(lg, LockTitle(lg, threadID, groupName), k), e,
                           <<SetTitle(groupName, threadID, k)>>, "GROUP-LOCKED") :
                  k \in BOOLEAN }
    ELSE IF subCommand = "off" THEN
      GroupReply(UnlockTitle(lg, threadID), e, <<>>, "GROUP-UNLOCKED")
    ELSE GroupReply(lg, e, <<>>, "GROUP-USAGE")

(***************************************************************************)
(* handleNicknameCommand (524-544).  Nothing is caught here but a failed   *)
(* member rename (538): a rejected getThreadInfo or sendMessage leaves the *)
(* function and is caught by handleMessage (487).  The branch for a        *)
(* sub-command other than on/off lies behind the end of the file: no       *)
(* outcome is modelled for it.                                             *)
(***************************************************************************)
NickReply(ln, e, before, text) ==
  { [ln |-> ln, out |-> before \o <<Sent(e, text, k)>>] : k \in BOOLEAN }

\* A mutant of RenameMembers: the first failed rename ends the loop.
RECURSIVE RenameMembersUntilFailure(_, _, _, _, _)
RenameMembersUntilFailure(parts, nickname, t, admin, failing) ==
  IF Len(parts) = 0 THEN <<>>
  ELSE
    LET pid == Head(parts) IN
    IF pid = admin THEN RenameMembersUntilFailure(Tail(parts), nickname, t, admin, failing)
    ELSE IF pid \in failing THEN <<ChangeNickname(nickname, t, pid, FALSE)>>
    ELSE <<ChangeNickname(nickname, t, pid, TRUE)>>
           \o RenameMembersUntilFailure(Tail(parts), nickname, t, admin, failing)

\* 536-540: one rename per participant that is not the admin, a failure logged.
RECURSIVE RenameMembers(_, _, _, _, _)
RenameMembers(parts, nickname, t, admin, failing) ==
  IF Len(parts) = 0 THEN <<>>
  ELSE
    LET pid == Head(parts) IN
    (IF pid # admin
       THEN <<ChangeNickname(nickname, t, pid, pid \notin failing)>>
       ELSE <<>>)
    \o RenameMembers(Tail(parts), nickname, t, admin, failing)

\* 532-533
LockNicknames(ln, t, nickname) ==
  IF t \in DOMAIN ln
    THEN [ln EXCEPT ![t].default = nickname]
    ELSE Put(ln, t, [default |-> nickname, users |-> EmptyObject])

UnlockNicknames(ln, t) == Delete(ln, t)

SeqRange(s) == { s[i] : i \in 1..Len(s) }

HandleNicknameCommand(ln, e, args, isAdmin, admin) ==
  LET threadID == e.threadID IN
  IF ~isAdmin THEN NickReply(ln, e, <<>>, "DENIED")
  ELSE
    LET subCommand == ToLowerCase(ShiftOrEmpty(args))
        rest == ShiftRest(args)
    IN
    IF subCommand = "on" THEN
      LET nickname == Trim(JoinBlank(rest)) IN
      IF nickname = "" THEN NickReply(ln, e, <<>>, "NICK-ON-USAGE")
      ELSE
        LET ln2 == LockNicknames(ln, threadID, nickname) IN
        { [ln |-> ln2, out |-> <<GetThreadInfo(threadID, ps, FALSE)>>] :
            ps \in ParticipantLists }
        \cup
        UNION { NickReply(ln2, e,
                          <<GetThreadInfo(threadID, ps, TRUE)>>
                            \o RenameMembers(ps, nickname, threadID, admin, failing),
                          "NICK-LOCKED") :
                  ps \in ParticipantLists, failing \in SUBSET Users }
    ELSE IF subCommand = "off" THEN
      NickReply(UnlockNicknames(ln, threadID), e, <<>>, "NICK-UNLOCKED")
    ELSE {}

(***************************************************************************)
(* The texts the model receives, and their analysis computed once: the     *)
(* tables hold the values of AutoReply and CommandArgs for every text.     *)
(***************************************************************************)
(* The texts the session sends, as they come back to it.  The listener is  *)
(* set up with selfListen (97-98), so every message the session has sent   *)
(* is delivered to its own callback.  Characters outside ASCII (the        *)
(* emoji and the mathematical bold letters of most replies, which          *)
(* toLowerCase leaves alone and no phrase matches) are written "*".        *)
(***************************************************************************)
\* 45-46 (the forty blanks between the marks of the separator are left out).
signature == "\n  \n*FUCKING BOT ENTER*\n"

separator == "\n * *"

\* 329-330: the display name api.getUserInfo reports for a user ('User' when
\* it reports none).
SenderName(u) == IF u = "u2" THEN "Mkc" ELSE "User"

\* The main message of a reply the model names (367, 393, 398, 431, 476); a
\* long text is cut after its first words, and the part cut holds no phrase
\* of the auto-reply table.
MainMessage(text) ==
  CASE text = "ADMIN-MENTIONED" -> "ALL HATERS FUCKED.."
    [] text = "BOT-1" -> "*CHUP KAR BEY KUTYY*"
    [] text = "BOT-6" -> "*BOT NI TERI BAJI.."
    [] text = "UNKNOWN-COMMAND" -> "Teri ma ki ch.."
    [] text = "TID:t1" -> "Group ID: t1"
    [] text = "TID:t2" -> "Group ID: t2"
    [] OTHER -> "*** ***"

\* 335, 344: formatMessage's body.
FinalMessage(senderName, mainMessage) ==
  (" * " \o senderName \o "*\n") \o "\n" \o mainMessage \o signature \o separator

\* The replies of handleMessage that SpecSelf sees, and their bodies.
SelfTexts ==
  { "ADMIN-MENTIONED", "REPLY-MKC", "UNKNOWN-COMMAND", "TID:t1", "TID:t2",
    "BOT-1", "BOT-2", "BOT-3", "BOT-4", "BOT-5", "BOT-6", "BOT-7", "BOT-8" }

SelfBodies ==
  { FinalMessage(SenderName(u), MainMessage(t)) :
      u \in {"u1", "u2", "bot"}, t \in SelfTexts }

(***************************************************************************)
AllBodies ==
  Bodies \cup LockBodies \cup MentioningBodies \cup ReplyBodies \cup SelfBodies

Prefixes == {"/", "!"}

(***************************************************************************)
(* handleMessage (352-490).  An outcome is [lg, ln, calls, out]: the new   *)
(* policy maps, the handlers entered and the calls issued.                 *)
(***************************************************************************)
\* 415-416: the arguments and the command of a text that starts with the prefix.
CommandArgs(body, pfx) == SplitBlanks(Trim(SliceFrom(body, Len(pfx))))

CommandName(body, pfx) == ToLowerCase(ShiftOrEmpty(CommandArgs(body, pfx)))

AutoReplyOf == [b \in AllBodies |-> AutoReply(b)]

StartsWithPrefix == [p \in Prefixes |-> [b \in AllBodies |-> StartsWith(b, p)]]

CommandArgsOf == [p \in Prefixes |-> [b \in AllBodies |-> CommandArgs(b, p)]]

CommandNameOf == [p \in Prefixes |-> [b \in AllBodies |-> CommandName(b, p)]]

\* The commands of the switch (420-473) whose handlers lie behind the end of
\* the file.
UnmodelledCommands ==
  { "botnick", "fyt", "stop", "target", "help", "photolock", "gclock", "gcremove",
    "nicklock", "nickremoveall", "nickremoveoff", "status" }

\* 482-485: the reply of a command that answers with a text; a failed send is logged.
CommandReply(lg, ln, e, text) ==
  { [lg |-> lg, ln |-> ln, calls |-> <<"handleMessage">>, out |-> <<Sent(e, text, k)>>] :
      k \in BOOLEAN }

\* 360: a mutant of IsAdmin, for which every sender is the admin.
IsAdminAnySender(senderID, admin) == TRUE

\* 360: const isAdmin = senderID === adminID
IsAdmin(senderID, admin) == senderID = admin

\* 420-480: the switch on the command.
RunCommand(lg, ln, e, admin, pfx) ==
  LET args == CommandArgsOf[pfx][e.body]
      command == CommandNameOf[pfx][e.body]
      rest == ShiftRest(args)
      isAdmin == IsAdmin(e.senderID, admin)
  IN
  CASE command = "group" ->
         { [lg |-> o.lg, ln |-> ln, calls |-> <<"handleMessage", "handleGroupCommand">>,
            out |-> o.out] : o \in HandleGroupCommand(lg, e, rest, isAdmin) }
    [] command = "nickname" ->
         { [lg |-> lg, ln |-> o.ln, calls |-> <<"handleMessage", "handleNicknameCommand">>,
            out |-> o.out] : o \in HandleNicknameCommand(ln, e, rest, isAdmin, admin) }
    [] command \in UnmodelledCommands -> {}
    [] command = "tid" -> CommandReply(lg, ln, e, "TID:" \o e.threadID)
    [] command = "uid" ->
         IF e.mentions # {}
           THEN CommandReply(lg, ln, e, "UID:" \o (CHOOSE m \in e.mentions : TRUE))
           ELSE CommandReply(lg, ln, e, "UID:" \o e.senderID)
    [] OTHER ->
         IF ~isAdmin
           THEN CommandReply(lg, ln, e, "UNKNOWN-COMMAND")
           ELSE CommandReply(lg, ln, e, "PREFIX-IS:" \o pfx)

\* A mutant of IsCommandText: the prefix is not looked at.
IsCommandTextAnyPrefix(body, pfx) == body # ""

\* 413: the text is a command: it is not empty and starts with the prefix.
IsCommandText(body, pfx) == body # "" /\ StartsWithPrefix[pfx][body]

HandleMessage(lg, ln, e, admin, pfx) ==
  LET body == e.body
      nothing == { [lg |-> lg, ln |-> ln, calls |-> <<"handleMessage">>, out |-> <<>>] }
  IN
  \* 365-371: the admin is mentioned
  IF admin \in e.mentions THEN CommandReply(lg, ln, e, "ADMIN-MENTIONED")
  \* 373-410: the fixed phrases
  ELSE IF body # "" /\ AutoReplyOf[body] # {}
    THEN UNION { CommandReply(lg, ln, e, r) : r \in AutoReplyOf[body] }
  \* 413
  ELSE IF ~IsCommandText(body, pfx) THEN nothing
  ELSE RunCommand(lg, ln, e, admin, pfx)

(***************************************************************************)
(* The handlers of the platform's change events.  Their code lies behind   *)
(* the end of the file; they are modelled from spec.md 4.3.                *)
(***************************************************************************)
HandleThreadNameChange(lg, e) ==
  IF e.threadID \in DOMAIN lg /\ e.name # lg[e.threadID]
    THEN { <<SetTitle(lg[e.threadID], e.threadID, k)>> : k \in BOOLEAN }
    ELSE { <<>> }

EffectiveNickname(policy, pid) ==
  IF pid \in DOMAIN policy.users THEN policy.users[pid] ELSE policy.default

HandleNicknameChange(ln, e, admin) ==
  IF /\ e.threadID \in DOMAIN ln
     /\ e.participant # admin
     /\ e.nickname # EffectiveNickname(ln[e.threadID], e.participant)
    THEN { <<ChangeNickname(EffectiveNickname(ln[e.threadID], e.participant),
                            e.threadID, e.participant, k)>> : k \in BOOLEAN }
    ELSE { <<>> }

(***************************************************************************)
(* handleBotAddedToGroup (309-323): when the session's own account is      *)
(* among the added participants, its nickname is set and the welcome       *)
(* message sent, a failure of either ignored (.catch(() => {})).           *)
(***************************************************************************)
HandleBotAddedToGroup(e) ==
  IF BotID \in e.added
    THEN { <<ChangeNickname("BOT-NICKNAME", e.threadID, BotID, k1),
             SentPlain(e.threadID, "WELCOME", k2)>> : k1, k2 \in BOOLEAN }
    ELSE { <<>> }

(***************************************************************************)
(* The dispatcher: the callback of api.listenMqtt (127-150).               *)
(***************************************************************************)
\* A mutant of Dispatch: the branches of the two change events are exchanged.
DispatchExchanged(e) ==
  IF e.type = "message" \/ e.type = "message_reply" THEN "handleMessage"
  ELSE IF e.logMessageType = "log:thread-name" THEN "handleNicknameChange"
  ELSE IF e.logMessageType = "log:user-nickname" THEN "handleThreadNameChange"
  ELSE IF e.logMessageType = "log:thread-image" THEN "handleGroupImageChange"
  ELSE IF e.logMessageType = "log:subscribe" THEN "handleBotAddedToGroup"
  ELSE ""

\* 136-146: the handler an event is routed to, "" for none.
Dispatch(e) ==
  IF e.type = "message" \/ e.type = "message_reply" THEN "handleMessage"
  ELSE IF e.logMessageType = "log:thread-name" THEN "handleThreadNameChange"
  ELSE IF e.logMessageType = "log:user-nickname" THEN "handleNicknameChange"
  ELSE IF e.logMessageType = "log:thread-image" THEN "handleGroupImageChange"
  ELSE IF e.logMessageType = "log:subscribe" THEN "handleBotAddedToGroup"
  ELSE ""

\* The outcomes of the handler the dispatcher calls for event e.
Handle(lg, ln, e, admin, pfx) ==
  LET h == Dispatch(e) IN
  CASE h = "handleMessage" -> HandleMessage(lg, ln, e, admin, pfx)
    [] h = "handleThreadNameChange" ->
         { [lg |-> lg, ln |-> ln, calls |-> <<h>>, out |-> o] :
             o \in HandleThreadNameChange(lg, e) }
    [] h = "handleNicknameChange" ->
         { [lg |-> lg, ln |-> ln, calls |-> <<h>>, out |-> o] :
             o \in HandleNicknameChange(ln, e, admin) }
    [] h = "handleBotAddedToGroup" ->
         { [lg |-> lg, ln |-> ln, calls |-> <<h>>, out |-> o] :
             o \in HandleBotAddedToGroup(e) }
    [] h = "" -> { [lg |-> lg, ln |-> ln, calls |-> <<>>, out |-> <<>>] }
    [] OTHER -> {}

(***************************************************************************)
(* The session manager (80-184, 246-293).  Its state is gathered in a      *)
(* record so that the functions that call one another (initializeBot,      *)
(* startListening, reconnectAndListen) compose; a function whose outcome   *)
(* the environment decides yields the set of its outcomes.                 *)
(***************************************************************************)
\* Bounds of the model.
MaxPending == 1     \* logins in flight, and pending timers of one kind

MaxListeners == 1   \* live subscriptions of one handle

\* The api objects login() hands out: the first and the second login of a run
\* that succeed.
Handles == {1, 2}

\* The credential blobs of the /configure requests and of config.json at the
\* start, and the blobs api.getAppState() reads from the handles.
Cookies == {"c1", "c2"}

AppState(api) == IF api = 1 THEN "a1" ELSE "a2"

Blobs == Cookies \cup { AppState(h) : h \in Handles }

\* config.json with the given fields; NoFile when there is none.
File(c, p, a) == [cookies |-> c, prefix |-> p, adminID |-> a]

NoFile == File("", "", "")

\* 172: the number of reconnect attempts after which the login is repeated.
MaxReconnectAttempts == 5

\* 28: let botAPI = null
NoApi == 0

InitPolicy ==
  /\ lockedGroups = EmptyObject
  /\ lockedNicknames = EmptyObject
  /\ ev = NoEvent
  /\ calls = <<>>
  /\ out = <<>>
  /\ released = {}
  /\ running = <<>>

Session ==
  [botAPI |-> botAPI, adminID |-> adminID, prefix |-> prefix,
   currentCookies |-> currentCookies, reconnectAttempt |-> reconnectAttempt,
   joinedGroups |-> joinedGroups, savers |-> savers, configFile |-> configFile,
   logins |-> logins, retryTimers |-> retryTimers, settleTimers |-> settleTimers,
   restartTimers |-> restartTimers, listeners |-> listeners, handles |-> handles]

\* The session becomes s, and the step taken is o.
Becomes(s, o) ==
  /\ botAPI' = s.botAPI
  /\ adminID' = s.adminID
  /\ prefix' = s.prefix
  /\ currentCookies' = s.currentCookies
  /\ reconnectAttempt' = s.reconnectAttempt
  /\ joinedGroups' = s.joinedGroups
  /\ savers' = s.savers
  /\ configFile' = s.configFile
  /\ logins' = s.logins
  /\ retryTimers' = s.retryTimers
  /\ settleTimers' = s.settleTimers
  /\ restartTimers' = s.restartTimers
  /\ listeners' = s.listeners
  /\ handles' = s.handles
  /\ op' = o

\* JavaScript's a || b on strings, "" standing for null and undefined.
OrElse(a, b) == IF a # "" THEN a ELSE b

TotalLogins(s) == s.logins["c1"] + s.logins["c2"] + s.logins["a1"] + s.logins["a2"]

\* 80-87: initializeBot up to the call of login(), whose callback is pending.
InitializeBot(s, cookies, newPrefix, newAdminID) ==
  LET cc == OrElse(cookies, s.currentCookies) IN
  [s EXCEPT !.currentCookies = cc,
            !.prefix = OrElse(newPrefix, s.prefix),
            !.adminID = OrElse(newAdminID, s.adminID),
            !.reconnectAttempt = 0,
            !.logins = [s.logins EXCEPT ![cc] = @ + 1]]

\* A mutant of ShouldRelogin: the login is repeated one attempt early.
ShouldReloginEarly(attempt) == attempt >= MaxReconnectAttempts

\* 172: if (reconnectAttempt > 5): the reconnect policy gives up on the handle.
ShouldRelogin(attempt) == attempt > MaxReconnectAttempts

\* 165: botAPI.stopListening(), which either ends the subscriptions of the
\* handle or throws (caught at 167) and leaves them.
StopListening(s) ==
  IF s.botAPI = NoApi THEN {s}
  ELSE {s, [s EXCEPT !.listeners = [@ EXCEPT ![s.botAPI] = 0]]}

\* A mutant of ReconnectAndListen: after the last attempt nothing is started.
ReconnectGivesUp(s) ==
  LET counted == [s EXCEPT !.reconnectAttempt = @ + 1] IN
  { IF ShouldRelogin(st.reconnectAttempt)
      THEN [st EXCEPT !.reconnectAttempt = 0]
      ELSE [st EXCEPT !.restartTimers = @ + 1] :
    st \in StopListening(counted) }

\* 158-184: reconnectAndListen.
ReconnectAndListen(s) ==
  LET counted == [s EXCEPT !.reconnectAttempt = @ + 1] IN
  { IF ShouldRelogin(st.reconnectAttempt)
      THEN InitializeBot(st, st.currentCookies, st.prefix, st.adminID)
      ELSE [st EXCEPT !.restartTimers = @ + 1] :
    st \in StopListening(counted) }

\* 120-156: startListening(api): the subscription is made, or listenMqtt
\* throws and the reconnect policy runs (152-155).
StartListening(s, api) ==
  IF api = NoApi THEN {s}
  ELSE {[s EXCEPT !.listeners = [@ EXCEPT ![api] = @ + 1]]} \cup ReconnectAndListen(s)

\* Within the bounds of the model.
WithinBounds(s) ==
  /\ TotalLogins(s) <= MaxPending
  /\ s.retryTimers <= MaxPending
  /\ s.restartTimers <= MaxPending
  /\ \A h \in Handles : s.listeners[h] <= MaxListeners

\* A mutant of NoEventHandled: a step of the session manager starts with an
\* empty policy.
PolicyLostOnStep ==
  /\ lockedGroups' = EmptyObject
  /\ lockedNicknames' = EmptyObject
  /\ UNCHANGED <<released, running>>
  /\ ev' = NoEvent
  /\ calls' = <<>>
  /\ out' = <<>>

\* 80-184, 246-269: no callback of the session manager assigns lockedGroups or
\* lockedNicknames.
\* A step of the session manager handles no event: the policy is as it was,
\* and the record of the event handled in the step is empty.
NoEventHandled ==
  /\ UNCHANGED <<policyVars, released, running>>
  /\ ev' = NoEvent
  /\ calls' = <<>>
  /\ out' = <<>>

\* The step taken last: its name, the handle it is about, and whether it has
\* made a subscription (listenMqtt returned).
Step(n, a, sub) == [name |-> n, api |-> a, started |-> sub]

Subscribed(s, t, api) == api # NoApi /\ t.listeners[api] > s.listeners[api]

(***************************************************************************)
(* The steps of the session manager.                                       *)
(***************************************************************************)
\* A mutant of LoginFailed: a failed login is not tried again.
LoginFailedGiveUp(s, c) == [s EXCEPT !.logins = [@ EXCEPT ![c] = @ - 1]]

\* 87-92: the login fails; the retry is scheduled.
LoginFailed(s, c) ==
  [s EXCEPT !.logins = [@ EXCEPT ![c] = @ - 1], !.retryTimers = @ + 1]

LoginFail ==
  \E c \in Blobs :
    /\ logins[c] > 0
    /\ WithinBounds(LoginFailed(Session, c))
    /\ Becomes(LoginFailed(Session, c), Step("loginFail", NoApi, FALSE))
    /\ NoEventHandled

\* The lists of groups api.getThreadList returns.
GroupLists == { {"t1"} }

\* 222-231: updateJoinedGroups: the set is replaced by the list fetched, or the
\* fetch fails and the set is left.  Its fetch is taken to settle with the
\* step that calls it.
UpdateJoinedGroups(s) == {s} \cup { [s EXCEPT !.joinedGroups = g] : g \in GroupLists }

\* 74-77: startCookieSaver: the interval set before is cleared, a new one is set.
StartCookieSaver(s) == [s EXCEPT !.savers = (IF @ > 0 THEN @ - 1 ELSE 0) + 1]

\* 94-116: the login succeeds: the handle is kept, the groups are fetched,
\* the settle timer set and the interval of saveCookies started.
LoginSucceeded(s, c) ==
  LET api == s.handles + 1 IN
  { StartCookieSaver(t) :
      t \in UpdateJoinedGroups([s EXCEPT !.logins = [@ EXCEPT ![c] = @ - 1],
                                         !.handles = api,
                                         !.botAPI = api,
                                         !.settleTimers = @ \cup {api}]) }

LoginSucceed ==
  \E c \in Blobs :
    /\ logins[c] > 0
    /\ handles + 1 \in Handles
    /\ \E s \in LoginSucceeded(Session, c) :
         Becomes(s, Step("loginOk", handles + 1, FALSE))
    /\ NoEventHandled

\* 90: the retry timer fires.
RetryFired(s) ==
  InitializeBot([s EXCEPT !.retryTimers = @ - 1], s.currentCookies, s.prefix, s.adminID)

RetryFire ==
  /\ retryTimers > 0
  /\ WithinBounds(RetryFired(Session))
  /\ Becomes(RetryFired(Session), Step("retry", NoApi, FALSE))
  /\ NoEventHandled

\* 110-114: the settle timer of handle api fires.  setBotNicknamesInGroups and
\* sendStartupMessage change none of these variables.
SettleFire ==
  \E api \in settleTimers :
    \E s \in StartListening([Session EXCEPT !.settleTimers = @ \ {api}], api) :
      /\ WithinBounds(s)
      /\ Becomes(s, Step("settle", api, Subscribed(Session, s, api)))
      /\ NoEventHandled

\* 128-131: a subscription of handle api reports an error.
ListenerError ==
  \E api \in Handles :
    /\ listeners[api] > 0
    /\ \E s \in ReconnectAndListen(Session) :
         /\ WithinBounds(s)
         /\ Becomes(s, Step("listenerError", api, FALSE))
         /\ NoEventHandled

\* 176-182: a restart timer fires.
RestartFired(s) ==
  LET t == [s EXCEPT !.restartTimers = @ - 1] IN
  IF t.botAPI # NoApi
    THEN StartListening(t, t.botAPI)
    ELSE {InitializeBot(t, t.currentCookies, t.prefix, t.adminID)}

RestartFire ==
  /\ restartTimers > 0
  /\ \E s \in RestartFired(Session) :
       /\ WithinBounds(s)
       /\ Becomes(s, Step("restart", botAPI, Subscribed(Session, s, botAPI)))
       /\ NoEventHandled

(***************************************************************************)
(* The callback of api.listenMqtt on an event (133-149).                   *)
(***************************************************************************)
\* Some handle has a live listener: its callback is what receives the events.
Listening == \E h \in DOMAIN listeners : listeners[h] > 0

\* The history of removed locks after a step from policy (lg, ln) to (lg2, ln2).
Released(rel, lg, ln, lg2, ln2) ==
  (rel \cup { <<"title", t>> : t \in DOMAIN lg \ DOMAIN lg2 }
       \cup { <<"nickname", t>> : t \in DOMAIN ln \ DOMAIN ln2 })
    \ ({ <<"title", t>> : t \in DOMAIN lg2 } \cup { <<"nickname", t>> : t \in DOMAIN ln2 })

\* A call of the handler was rejected: an error was raised inside the handler.
Failed(o) == \E i \in 1..Len(o) : ~o[i].ok

\* A mutant of AfterHandler: an error inside a handler runs the reconnect policy.
AfterHandlerReconnects(s, failed) ==
  IF failed THEN CHOOSE t \in ReconnectAndListen(s) : TRUE ELSE s

\* 134-149: the handler is awaited inside try; the catch (147-149), like the
\* catches of the handlers themselves (487-489, 518-521), only logs: the
\* session is what it was.
AfterHandler(s, failed) == s

\* One event of the set E arrives at a live listener and its handler runs to
\* its end.
Receive(E) ==
  \E api \in Handles :
    /\ listeners[api] > 0
    /\ \E e \in E :
         \E o \in Handle(lockedGroups, lockedNicknames, e, adminID, prefix) :
           /\ ev' = e
           /\ lockedGroups' = o.lg
           /\ lockedNicknames' = o.ln
           /\ calls' = o.calls
           /\ out' = o.out
           /\ released' = Released(released, lockedGroups, lockedNicknames, o.lg, o.ln)
           /\ UNCHANGED running
           /\ Becomes(AfterHandler(Session, Failed(o.out)), Step("event", api, FALSE))

OnEvent == Receive(Events)

(***************************************************************************)
(* POST /configure (246-269).  `cookies` is what JSON.parse makes of the   *)
(* form field: "throws" when it is no JSON, "empty" for a value that is no *)
(* array or an empty one, else the credential blob.  `p` and `a` are the   *)
(* prefix and adminID fields, "" when absent.                              *)
(***************************************************************************)
Requests ==
  { [cookies |-> "throws", prefix |-> "!", adminID |-> "u2"],
    [cookies |-> "empty", prefix |-> "!", adminID |-> "u2"],
    [cookies |-> "c2", prefix |-> "!", adminID |-> ""],
    [cookies |-> "c2", prefix |-> "!", adminID |-> "u2"],
    [cookies |-> "c1", prefix |-> "", adminID |-> "u1"] }

Configured(s, cookies, p, a) ==
  IF cookies = "throws" THEN s
  ELSE
    LET set == [s EXCEPT !.prefix = OrElse(p, "/"), !.adminID = a] IN
    IF cookies = "empty" \/ a = "" THEN set
    ELSE InitializeBot([set EXCEPT !.configFile = File(cookies, set.prefix, set.adminID)],
                       cookies, set.prefix, set.adminID)

Configure ==
  \E r \in Requests :
    /\ WithinBounds(Configured(Session, r.cookies, r.prefix, r.adminID))
    /\ Becomes(Configured(Session, r.cookies, r.prefix, r.adminID), Step("configure", NoApi, FALSE))
    /\ NoEventHandled

(***************************************************************************)
(* Spec: the session manager from the start of the process (28-44,         *)
(* 272-293): nothing is configured, or config.json held credentials and    *)
(* initializeBot has been called with them.                                *)
(***************************************************************************)
Idle ==
  [botAPI |-> NoApi, adminID |-> "", prefix |-> "/", currentCookies |-> "",
   reconnectAttempt |-> 0, joinedGroups |-> {}, savers |-> 0, configFile |-> NoFile,
   logins |-> [c \in Blobs |-> 0], retryTimers |-> 0,
   settleTimers |-> {}, restartTimers |-> 0, listeners |-> [h \in Handles |-> 0],
   handles |-> 0]

\* 279-284: config.json with cookies c, and prefix p and adminID a ("" when absent).
AutoLoaded(c, p, a) ==
  LET pfx == OrElse(p, Idle.prefix)
      adm == OrElse(a, Idle.adminID)
  IN InitializeBot([Idle EXCEPT !.prefix = pfx, !.adminID = adm,
                                !.configFile = File(c, p, a)], c, pfx, adm)

\* 272-293: the process starts with config.json as it is.
Started(f) ==
  IF f.cookies # "" THEN AutoLoaded(f.cookies, f.prefix, f.adminID)
  ELSE [Idle EXCEPT !.configFile = f]

\* config.json at the first start: none, or one written by an earlier process.
InitFiles == { NoFile, File("c1", "", "u1"), File("c1", "!", "") }

Init ==
  /\ \E f \in InitFiles :
       LET s == Started(f) IN
       /\ botAPI = s.botAPI
       /\ adminID = s.adminID
       /\ prefix = s.prefix
       /\ currentCookies = s.currentCookies
       /\ reconnectAttempt = s.reconnectAttempt
       /\ joinedGroups = s.joinedGroups
       /\ savers = s.savers
       /\ configFile = s.configFile
       /\ logins = s.logins
       /\ retryTimers = s.retryTimers
       /\ settleTimers = s.settleTimers
       /\ restartTimers = s.restartTimers
       /\ listeners = s.listeners
       /\ handles = s.handles
  /\ op = Step("start", NoApi, FALSE)
  /\ InitPolicy

Next ==
  \/ Configure
  \/ LoginFail
  \/ LoginSucceed
  \/ RetryFire
  \/ SettleFire
  \/ ListenerError
  \/ RestartFire

Spec == Init /\ [][Next]_vars

(***************************************************************************)
(* SpecEv: the dispatcher of a session that is logged in and listening,    *)
(* with u1 the admin.                                                      *)
(***************************************************************************)
LoggedIn ==
  /\ botAPI = 1
  /\ adminID = "u1"
  /\ prefix = "/"
  /\ currentCookies = "c1"
  /\ reconnectAttempt = 0
  /\ joinedGroups = {"t1"}
  /\ savers = 1
  /\ configFile = File("c1", "/", "u1")
  /\ logins = [c \in Blobs |-> 0]
  /\ retryTimers = 0
  /\ settleTimers = {}
  /\ restartTimers = 0
  /\ listeners = [h \in Handles |-> IF h = 1 THEN 1 ELSE 0]
  /\ handles = 1
  /\ op = Step("settle", 1, TRUE)

InitEv == LoggedIn /\ InitPolicy

NextEv == OnEvent

SpecEv == InitEv /\ [][NextEv]_vars

(***************************************************************************)
(* Vocabulary of the claims about the dispatcher.  They are stated about   *)
(* a step: the unprimed variables are the state before the event, the      *)
(* primed ones the event (ev'), the handlers entered (calls') and the      *)
(* calls issued (out') for it, and the policy after it.                    *)
(***************************************************************************)
IsRename(r) == r.op = "setTitle" \/ r.op = "changeNickname"

IsNickRename(r) == r.op = "changeNickname"

IsSend(r) == r.op = "sendMessage"

Renames(o) == SelectSeq(o, IsRename)

\* The handler entered last for the event.
Entered(c, h) == Len(c) > 0 /\ c[Len(c)] = h

\* What a command text says: its sub-command and the words after it.
SubCommandOf(e, pfx) == ToLowerCase(ShiftOrEmpty(ShiftRest(CommandArgsOf[pfx][e.body])))

WordsOf(e, pfx) == Trim(JoinBlank(ShiftRest(ShiftRest(CommandArgsOf[pfx][e.body]))))

AutoTexts ==
  {"REPLY-MKC", "REPLY-TMCD", "REPLY-CHUTIYA", "REPLY-BOXDIKA"} \cup BotResponses

(***************************************************************************)
(* C1.  For a group whose title is locked to L by an admin `group on L`,   *)
(* a thread-name event with a title other than L is answered by exactly    *)
(* one setTitle(L) for that group, and one with the title L by no call at  *)
(* all; the event leaves the policy as it is.  (The lock is what the admin *)
(* command wrote: that command sets the entry of its group to L.)          *)
(***************************************************************************)
C1_TitleDrift ==
  [][ /\ (ev'.logMessageType = "log:thread-name" /\ ev'.type = "event"
            /\ ev'.threadID \in DOMAIN lockedGroups)
        => LET t == ev'.threadID
               L == lockedGroups[t]
           IN /\ calls' = <<"handleThreadNameChange">>
              /\ lockedGroups' = lockedGroups
              /\ IF ev'.name # L
                   THEN out' \in { <<SetTitle(L, t, k)>> : k \in BOOLEAN }
                   ELSE out' = <<>>
      /\ (Entered(calls', "handleGroupCommand") /\ ev'.senderID = adminID
            /\ SubCommandOf(ev', prefix) = "on" /\ WordsOf(ev', prefix) # "")
        => /\ ev'.threadID \in DOMAIN lockedGroups'
           /\ lockedGroups'[ev'.threadID] = WordsOf(ev', prefix)
    ]_vars

\* A rename of t1, locked to "A B", to "X" has been answered by setTitle("A B").
C1_Witness ==
  /\ ev.logMessageType = "log:thread-name"
  /\ ev.threadID = "t1" /\ ev.name = "X"
  /\ "t1" \in DOMAIN lockedGroups /\ lockedGroups["t1"] = "A B"
  /\ out = <<SetTitle("A B", "t1", TRUE)>>

(***************************************************************************)
(* C2 as stated.  When a sender other than the admin reaches the title or  *)
(* nickname lock command, both policy maps are as before, no rename is     *)
(* issued, and the calls issued are exactly one denial reply.              *)
(***************************************************************************)
NonAdminLockCommand(e, c) ==
  /\ e.senderID # adminID
  /\ Entered(c, "handleGroupCommand") \/ Entered(c, "handleNicknameCommand")

C2_OnlyOneDenial ==
  [][ NonAdminLockCommand(ev', calls')
        => /\ lockedGroups' = lockedGroups
           /\ lockedNicknames' = lockedNicknames
           /\ Renames(out') = <<>>
           /\ Len(out') = 1
           /\ IsSend(out'[1]) /\ out'[1].arg = "DENIED"
    ]_vars

(***************************************************************************)
(* C2 as amended.  ... both policy maps are as before, no rename is        *)
(* issued, the first call is the denial reply, and the only other call     *)
(* there can be is the error notice handleGroupCommand sends when the      *)
(* denial could not be sent.                                               *)
(***************************************************************************)
C2_DenialNoMutation ==
  [][ NonAdminLockCommand(ev', calls')
        => /\ lockedGroups' = lockedGroups
           /\ lockedNicknames' = lockedNicknames
           /\ Renames(out') = <<>>
           /\ Len(out') >= 1
           /\ IsSend(out'[1]) /\ out'[1].arg = "DENIED"
           /\ out'[1].thread = ev'.threadID
           /\ \/ Len(out') = 1
              \/ /\ Len(out') = 2
                 /\ Entered(calls', "handleGroupCommand")
                 /\ ~out'[1].ok
                 /\ IsSend(out'[2]) /\ out'[2].arg = "GROUP-ERROR"
    ]_vars

\* u2 has asked to lock the title of t1, which the admin had locked to "A B":
\* the denial went out and the lock is as it was.
C2_Witness ==
  /\ ev.senderID = "u2" /\ ev.body = "/group on A" /\ ev.threadID = "t1"
  /\ calls = <<"handleMessage", "handleGroupCommand">>
  /\ out = <<Sent(ev, "DENIED", TRUE)>>
  /\ "t1" \in DOMAIN lockedGroups /\ lockedGroups["t1"] = "A B"

(***************************************************************************)
(* C5.  An admin `off` command removes the entry of its group and issues   *)
(* no rename; a change event for a field of a group that has no entry for  *)
(* it is answered by no call; and an entry that is absent stays absent     *)
(* until an admin lock command for that group and field is handled.        *)
(***************************************************************************)
AdminCommand(e, c, h, sub) ==
  /\ Entered(c, h)
  /\ e.senderID = adminID
  /\ SubCommandOf(e, prefix) = sub

C5_UnlockStopsEnforcement ==
  [][ /\ AdminCommand(ev', calls', "handleGroupCommand", "off")
        => /\ ev'.threadID \notin DOMAIN lockedGroups'
           /\ Renames(out') = <<>>
      /\ AdminCommand(ev', calls', "handleNicknameCommand", "off")
        => /\ ev'.threadID \notin DOMAIN lockedNicknames'
           /\ Renames(out') = <<>>
      /\ (ev'.type = "event" /\ ev'.logMessageType = "log:thread-name"
            /\ ev'.threadID \notin DOMAIN lockedGroups)
        => out' = <<>> /\ calls' = <<"handleThreadNameChange">>
      /\ (ev'.type = "event" /\ ev'.logMessageType = "log:user-nickname"
            /\ ev'.threadID \notin DOMAIN lockedNicknames)
        => out' = <<>> /\ calls' = <<"handleNicknameChange">>
      /\ \A t \in Threads :
           /\ (t \notin DOMAIN lockedGroups /\ t \in DOMAIN lockedGroups')
                => ev'.threadID = t /\ AdminCommand(ev', calls', "handleGroupCommand", "on")
           /\ (t \notin DOMAIN lockedNicknames /\ t \in DOMAIN lockedNicknames')
                => ev'.threadID = t /\ AdminCommand(ev', calls', "handleNicknameCommand", "on")
    ]_vars

\* The title lock and the nickname lock of t1 were set and then removed by
\* `off`, and a rename of t1 that followed was answered by nothing.
C5_Witness ==
  /\ <<"title", "t1">> \in released
  /\ <<"nickname", "t1">> \in released
  /\ ev.logMessageType = "log:thread-name" /\ ev.threadID = "t1" /\ ev.name = "X"
  /\ out = <<>>

NotAdmin(pid) == pid # adminID

NickOnCase(e, c) ==
  /\ AdminCommand(e, c, "handleNicknameCommand", "on")
  /\ WordsOf(e, prefix) # ""

\* The renames of `o` are one changeNickname(nick) in t for each of `members`, in order.
RenamesExactly(o, members, nick, t) ==
  LET rn == Renames(o) IN
  /\ Len(rn) = Len(members)
  /\ \A i \in 1..Len(rn) :
       /\ rn[i].op = "changeNickname"
       /\ rn[i].who = members[i]
       /\ rn[i].arg = nick
       /\ rn[i].thread = t

PolicySet(e) ==
  /\ e.threadID \in DOMAIN lockedNicknames'
  /\ lockedNicknames'[e.threadID].default = WordsOf(e, prefix)

C7_RenamesEveryMember ==
  [][ NickOnCase(ev', calls')
        => /\ PolicySet(ev')
           /\ out'[1].op = "getThreadInfo"
           /\ RenamesExactly(out', SelectSeq(out'[1].parts, NotAdmin),
                             WordsOf(ev', prefix), ev'.threadID)
    ]_vars

(***************************************************************************)
(* C7 as amended.  ... sets the default nickname of its group's policy to  *)
(* <nick> and, when getThreadInfo answers, issues one changeNickname(<nick>)*)
(* for every participant it lists but the admin, whether or not the        *)
(* renames before it failed, and none for the admin; when getThreadInfo    *)
(* fails, no rename is issued at all (the policy is set all the same).     *)
(***************************************************************************)
C7_RenamesListedMembers ==
  [][ NickOnCase(ev', calls')
        => /\ PolicySet(ev')
           /\ out'[1].op = "getThreadInfo" /\ out'[1].thread = ev'.threadID
           /\ IF out'[1].ok
                THEN RenamesExactly(out', SelectSeq(out'[1].parts, NotAdmin),
                                    WordsOf(ev', prefix), ev'.threadID)
                ELSE out' = <<out'[1]>>
           /\ \A i \in 1..Len(out') : IsRename(out'[i]) => out'[i].who # adminID
    ]_vars

\* The admin's "/NICKNAME On  M" in t1, whose participants are u1 (the admin),
\* u2 and u3: the rename of u2 failed and u3 was renamed after it; u1 was not.
C7_Witness ==
  /\ ev.body = "/NICKNAME On  M" /\ ev.senderID = adminID /\ ev.threadID = "t1"
  /\ lockedNicknames["t1"].default = "M"
  /\ out = << GetThreadInfo("t1", <<"u1", "u2", "u3">>, TRUE),
              ChangeNickname("M", "t1", "u2", FALSE),
              ChangeNickname("M", "t1", "u3", TRUE),
              Sent(ev, "NICK-LOCKED", TRUE) >>

(***************************************************************************)
(* C8.  The fixed-phrase matcher answers only messages whose text does not *)
(* start with the prefix; a message whose text starts with the prefix is   *)
(* handled as the command its first word names: `group` enters             *)
(* handleGroupCommand, `nickname` handleNicknameCommand.  (Stated for      *)
(* messages that mention nobody.)                                          *)
(***************************************************************************)
IsMessage(e) == e.type = "message" \/ e.type = "message_reply"

C8_PrefixedIsCommand ==
  (IsMessage(ev) /\ ev.mentions = {} /\ StartsWithPrefix[prefix][ev.body])
    => /\ \A i \in 1..Len(out) : out[i].arg \notin AutoTexts
       /\ CommandNameOf[prefix][ev.body] = "group"
            => calls = <<"handleMessage", "handleGroupCommand">>
       /\ CommandNameOf[prefix][ev.body] = "nickname"
            => calls = <<"handleMessage", "handleNicknameCommand">>

(***************************************************************************)
(* C9 as stated.  A message whose text neither starts with the prefix nor  *)
(* contains a phrase of the auto-reply table issues no call, whoever sent  *)
(* it and whomever it mentions.                                            *)
(***************************************************************************)
NoCommandNoPhrase(e) ==
  /\ IsMessage(e)
  /\ ~StartsWith(e.body, prefix)
  /\ \A ph \in {"mkc", "teri maa chod dunga", "chutiya", "boxdika", "bot"} :
       ~Includes(ToLowerCase(e.body), ph)

C9_SilentWhateverMentions == NoCommandNoPhrase(ev) => out = <<>>

(***************************************************************************)
(* C9 as amended.  A message whose text neither starts with the prefix nor *)
(* contains a phrase of the auto-reply table, and which does not mention   *)
(* the admin, issues no call, whoever sent it.                             *)
(***************************************************************************)
C9_SilentUnlessAdminMentioned ==
  (NoCommandNoPhrase(ev) /\ adminID \notin ev.mentions)
    => out = <<>> /\ calls = <<"handleMessage">>

\* "hello", mentioning u2, from the admin: nothing was sent.
C9_Witness ==
  /\ ev.type = "message" /\ ev.body = "hello" /\ ev.mentions = {"u2"}
  /\ ev.senderID = adminID
  /\ calls = <<"handleMessage">>
  /\ out = <<>>

(***************************************************************************)
(* Vocabulary of the claims about the session manager: op' names the step  *)
(* taken, the unprimed variables are the state before it.                  *)
(***************************************************************************)
LoginsInFlight == TotalLogins(Session)

OneMoreLogin(c) == logins' = [logins EXCEPT ![c] = @ + 1]

(***************************************************************************)
(* C3.  After every step in which a listener has been started (the settle  *)
(* timer's start or a restart on the same handle after a listener error,   *)
(* listenMqtt having returned), the reconnect counter is zero.             *)
(***************************************************************************)
C3_ResetOnListenerStart ==
  (op.name \in {"settle", "restart"} /\ op.started) => reconnectAttempt = 0

(***************************************************************************)
(* C4.  The counter never exceeds five between steps.  A listener error    *)
(* that finds it below five (the first to fifth in a row) adds one to it,  *)
(* schedules one restart timer, starts no login and keeps the handle; the  *)
(* timer, when it fires, starts the listener on that handle (botAPI) and   *)
(* starts no login unless listenMqtt throws.  A listener error that finds  *)
(* the counter at five (the sixth) schedules no restart, starts one login  *)
(* with the credentials held, and leaves the counter at zero.              *)
(***************************************************************************)
C4_FiveRestartsThenRelogin ==
  [][ /\ reconnectAttempt' <= MaxReconnectAttempts
      /\ op'.name = "listenerError"
           => IF reconnectAttempt < MaxReconnectAttempts
                THEN /\ reconnectAttempt' = reconnectAttempt + 1
                     /\ restartTimers' = restartTimers + 1
                     /\ logins' = logins
                     /\ retryTimers' = retryTimers
                     /\ botAPI' = botAPI /\ botAPI # NoApi
                ELSE /\ reconnectAttempt' = 0
                     /\ restartTimers' = restartTimers
                     /\ OneMoreLogin(currentCookies)
                     /\ currentCookies' = currentCookies
                     /\ \A h \in Handles : listeners'[h] <= listeners[h]
      /\ (op'.name = "restart" /\ op'.started)
           => /\ botAPI # NoApi /\ botAPI' = botAPI
              /\ listeners' = [listeners EXCEPT ![botAPI] = @ + 1]
              /\ logins' = logins
              /\ restartTimers' = restartTimers - 1
              /\ reconnectAttempt' = reconnectAttempt
    ]_vars

\* The sixth listener error in a row: the counter is zero again, a login with
\* the credentials held is in flight and no restart is scheduled.
C4_Witness ==
  /\ op.name = "listenerError"
  /\ reconnectAttempt = 0
  /\ botAPI # NoApi
  /\ logins[currentCookies] = 1
  /\ restartTimers = 0

LiveBodies == { "/group on A", "/group off", "/nickname off" }

\* The admin's lock commands, a message of another user, and a title change.
LiveEvents ==
  { [NoEvent EXCEPT !.type = "message", !.threadID = "t1", !.senderID = "u1", !.body = b] :
      b \in LiveBodies }
  \cup
  { [NoEvent EXCEPT !.type = "message", !.threadID = "t1", !.senderID = "u2",
                    !.body = "hello"],
    [NoEvent EXCEPT !.type = "event", !.logMessageType = "log:thread-name",
                    !.threadID = "t1", !.senderID = "u2", !.name = "X"] }

OnLiveEvent == Receive(LiveEvents)

NextLive ==
  \/ OnLiveEvent
  \/ LoginFail
  \/ LoginSucceed
  \/ RetryFire
  \/ SettleFire
  \/ ListenerError
  \/ RestartFire

\* The admin has locked the nicknames of thread t1 (532-533).
InitLive ==
  /\ LoggedIn
  /\ lockedGroups = EmptyObject
  /\ lockedNicknames = LockNicknames(EmptyObject, "t1", "N")
  /\ ev = NoEvent
  /\ calls = <<>>
  /\ out = <<>>
  /\ released = {}
  /\ running = <<>>

SpecLive == InitLive /\ [][NextLive]_vars

(***************************************************************************)
(* C11.  A step in which an event is handled and a call of its handler     *)
(* fails leaves the session as it was: the reconnect counter, the logins   *)
(* in flight, the timers and the listeners are unchanged, so a listener is *)
(* still live and receives the next event.  The reconnect counter grows    *)
(* only in a step of the listener: its error callback, or a start at which *)
(* listenMqtt throws.                                                      *)
(***************************************************************************)
SessionKept ==
  <<botAPI, adminID, prefix, currentCookies, reconnectAttempt, joinedGroups, savers,
    configFile, logins,
    retryTimers, settleTimers, restartTimers, listeners, handles>>

C11_HandlerErrorIsolated ==
  [][ /\ (op'.name = "event" /\ Failed(out'))
           => /\ SessionKept' = SessionKept
              /\ \E h \in Handles : listeners'[h] > 0
      /\ reconnectAttempt' > reconnectAttempt
           => \/ op'.name = "listenerError"
              \/ op'.name \in {"settle", "restart"} /\ ~op'.started
    ]_vars

\* The admin's `/group on A` has been handled with setTitle rejected, after
\* two listener errors: the counter is still two and the listener is live.
C11_Witness ==
  /\ op.name = "event"
  /\ ev.body = "/group on A" /\ ev.senderID = "u1"
  /\ Failed(out)
  /\ reconnectAttempt = 2
  /\ Listening

(***************************************************************************)
(* SpecAsync: the handlers at the grain of their awaits.  The callback of  *)
(* listenMqtt is an async function (127) that nothing awaits: it runs to   *)
(* the first await of the handler and returns, and the next event's        *)
(* callback may run before the awaited call has settled.  A handler that   *)
(* waits is [e, pc, nick, todo]: its event, the call it waits for, the     *)
(* name it sets (groupName, nickname) and for `nickname on` the members    *)
(* still to rename.  The                                                   *)
(* getUserInfo of formatMessage and the sendMessage after it are one wait. *)
(***************************************************************************)
MaxRunning == 2     \* handlers that wait at the same time

AsyncBodies == { "hello", "/group on A", "/group off", "/nickname on N", "/nickname off" }

AsyncEvents ==
  { [NoEvent EXCEPT !.type = "message", !.threadID = "t1", !.senderID = u, !.body = b] :
      u \in Senders, b \in AsyncBodies }

Waiting(e, pc, nick, todo) == [e |-> e, pc |-> pc, nick |-> nick, todo |-> todo]

\* 492-517 up to the first await: the policy after it and the wait, <<>> for none.
StartGroupCommand(lg, ln, e, args, isAdmin) ==
  LET subCommand == ToLowerCase(ShiftOrEmpty(args))
      groupName == Trim(JoinBlank(ShiftRest(args)))
      t == e.threadID
  IN IF ~isAdmin THEN [lg |-> lg, ln |-> ln, wait |-> <<Waiting(e, "groupReply", "", <<>>)>>]
     ELSE IF subCommand = "on" /\ groupName # ""
       THEN [lg |-> LockTitle(lg, t, groupName), ln |-> ln,
             wait |-> <<Waiting(e, "setTitle", groupName, <<>>)>>]
     ELSE IF subCommand = "off"
       THEN [lg |-> UnlockTitle(lg, t), ln |-> ln,
             wait |-> <<Waiting(e, "groupReply", "", <<>>)>>]
     ELSE [lg |-> lg, ln |-> ln, wait |-> <<Waiting(e, "groupReply", "", <<>>)>>]

\* 524-544 up to the first await.
StartNicknameCommand(lg, ln, e, args, isAdmin) ==
  LET subCommand == ToLowerCase(ShiftOrEmpty(args))
      nickname == Trim(JoinBlank(ShiftRest(args)))
      t == e.threadID
  IN IF ~isAdmin THEN [lg |-> lg, ln |-> ln, wait |-> <<Waiting(e, "reply", "", <<>>)>>]
     ELSE IF subCommand = "on" /\ nickname # ""
       THEN [lg |-> lg, ln |-> LockNicknames(ln, t, nickname),
             wait |-> <<Waiting(e, "threadInfo", nickname, <<>>)>>]
     ELSE IF subCommand = "off"
       THEN [lg |-> lg, ln |-> UnlockNicknames(ln, t),
             wait |-> <<Waiting(e, "reply", "", <<>>)>>]
     ELSE [lg |-> lg, ln |-> ln, wait |-> <<Waiting(e, "reply", "", <<>>)>>]

\* 352-426 up to the first await of the handler.
StartHandler(lg, ln, e, admin, pfx) ==
  LET body == e.body
      args == CommandArgsOf[pfx][body]
      command == CommandNameOf[pfx][body]
      isAdmin == IsAdmin(e.senderID, admin)
  IN IF admin \in e.mentions \/ AutoReplyOf[body] # {}
       THEN [lg |-> lg, ln |-> ln, wait |-> <<Waiting(e, "reply", "", <<>>)>>]
     ELSE IF ~IsCommandText(body, pfx) THEN [lg |-> lg, ln |-> ln, wait |-> <<>>]
     ELSE IF command = "group" THEN StartGroupCommand(lg, ln, e, ShiftRest(args), isAdmin)
     ELSE IF command = "nickname" THEN StartNicknameCommand(lg, ln, e, ShiftRest(args), isAdmin)
     ELSE [lg |-> lg, ln |-> ln, wait |-> <<Waiting(e, "reply", "", <<>>)>>]

\* 536-537: the members of the list from the first that is not the admin on.
RECURSIVE SkipAdmin(_, _)
SkipAdmin(parts, admin) ==
  IF Len(parts) = 0 THEN <<>>
  ELSE IF parts[1] = admin THEN SkipAdmin(Tail(parts), admin)
  ELSE parts

\* The call a waiting handler waits for; ps is the participant list for getThreadInfo.
AwaitedCall(w, ps, k) ==
  LET t == w.e.threadID IN
  CASE w.pc = "setTitle" -> SetTitle(w.nick, t, k)
    [] w.pc = "threadInfo" -> GetThreadInfo(t, ps, k)
    [] w.pc = "rename" -> ChangeNickname(w.nick, t, w.todo[1], k)
    [] w.pc = "notice" -> SentPlain(t, "GROUP-ERROR", k)
    [] OTHER -> Sent(w.e, "REPLY", k)

\* The handler goes on after its call has settled, to its next await: the wait
\* that follows, <<>> when the handler has returned.
\*   507: a rejected setTitle is logged; the reply follows (508-509).
\*   518-520: a rejected reply of handleGroupCommand is followed by the notice.
\*   535: a rejected getThreadInfo leaves handleNicknameCommand (caught at 487).
\*   536-541: one rename after the other, a failure logged; then the reply.
Continue(w, ps, k, admin) ==
  LET renameOrReply(todo) ==
        IF todo = <<>> THEN <<Waiting(w.e, "reply", w.nick, <<>>)>>
        ELSE <<Waiting(w.e, "rename", w.nick, todo)>>
  IN CASE w.pc = "setTitle" -> <<Waiting(w.e, "groupReply", "", <<>>)>>
       [] w.pc = "groupReply" -> IF k THEN <<>> ELSE <<Waiting(w.e, "notice", "", <<>>)>>
       [] w.pc = "threadInfo" -> IF k THEN renameOrReply(SkipAdmin(ps, admin)) ELSE <<>>
       [] w.pc = "rename" -> renameOrReply(SkipAdmin(Tail(w.todo), admin))
       [] OTHER -> <<>>

\* An event arrives: its handler runs to its first await.
Arrive ==
  \E api \in Handles :
    /\ listeners[api] > 0
    /\ \E e \in AsyncEvents :
         LET s == StartHandler(lockedGroups, lockedNicknames, e, adminID, prefix) IN
         /\ Len(running) + Len(s.wait) <= MaxRunning
         /\ ev' = e
         /\ lockedGroups' = s.lg
         /\ lockedNicknames' = s.ln
         /\ calls' = <<"handleMessage">>
         /\ out' = <<>>
         /\ released' = Released(released, lockedGroups, lockedNicknames, s.lg, s.ln)
         /\ running' = running \o s.wait
         /\ Becomes(Session, Step("arrive", api, FALSE))

\* The call a handler waits for settles, and the handler runs to its next await.
Resume ==
  \E i \in 1..Len(running), k \in BOOLEAN, ps \in ParticipantLists :
    LET w == running[i] IN
    /\ w.pc # "threadInfo" => ps = <<>>
    /\ ev' = w.e
    /\ calls' = <<>>
    /\ out' = <<AwaitedCall(w, ps, k)>>
    /\ running' = SubSeq(running, 1, i - 1) \o Continue(w, ps, k, adminID)
                    \o SubSeq(running, i + 1, Len(running))
    /\ UNCHANGED <<policyVars, released>>
    /\ Becomes(Session, Step("resume", botAPI, FALSE))

NextAsync == Arrive \/ Resume

SpecAsync == InitEv /\ [][NextAsync]_vars

(***************************************************************************)
(* C12.  When the handler of an event starts, no handler of an earlier     *)
(* event is still waiting for one of its calls: at most one handler is in  *)
(* progress at any time.                                                   *)
(***************************************************************************)
C12_OneHandlerAtATime == Len(running) <= 1

(***************************************************************************)
(* C13.  At every moment at most one handle has a live listener, and no    *)
(* handle has more than one.                                               *)
(***************************************************************************)
C13_OneListener ==
  /\ \A h \in Handles : listeners[h] <= 1
  /\ \A g, h \in Handles : (listeners[g] > 0 /\ listeners[h] > 0) => g = h

(***************************************************************************)
(* C14.  A step that is not the handling of an event (a login callback, a  *)
(* retry, settle or restart timer, a listener error with its restart or    *)
(* re-login) leaves both policy maps as they are.  The entry of a thread   *)
(* is created or changed only by the handling of the admin's `on` command  *)
(* of that kind in that thread, and deleted only by the handling of the    *)
(* admin's `off` command of that kind in that thread.                      *)
(***************************************************************************)
Written(obj, obj2, t) == t \in DOMAIN obj2 /\ (t \notin DOMAIN obj \/ obj2[t] # obj[t])

Deleted(obj, obj2, t) == t \in DOMAIN obj /\ t \notin DOMAIN obj2

ByAdmin(t, h, sub) ==
  op'.name = "event" /\ ev'.threadID = t /\ AdminCommand(ev', calls', h, sub)

C15_AddedGroupJoined ==
  [][ (op'.name = "event" /\ ev'.logMessageType = "log:subscribe")
        => IF BotID \in ev'.added
             THEN ev'.threadID \in joinedGroups'
             ELSE joinedGroups' = joinedGroups /\ out' = <<>>
    ]_vars

(***************************************************************************)
(* Credential persistence and the restart of the process.                  *)
(***************************************************************************)
\* 55-72: saveCookies: the blob of the live handle is written to config.json
\* with the nickname, and kept as currentCookies; when getAppState or the write
\* throws, nothing is changed (69-71).  The object written has no prefix and
\* no adminID.
SaveCookies(s) ==
  IF s.botAPI = NoApi THEN {s}
  ELSE {s, [s EXCEPT !.configFile = File(AppState(s.botAPI), "", ""),
                     !.currentCookies = AppState(s.botAPI)]}

\* 76: an interval of saveCookies fires.
SaveFire ==
  /\ savers > 0
  /\ \E s \in SaveCookies(Session) : Becomes(s, Step("save", botAPI, FALSE))
  /\ NoEventHandled

\* The process ends and is started again: the globals are those of 28-44,
\* nothing of the old process is pending, and config.json is loaded (272-293).
ProcessStart ==
  /\ op.name # "start"
  /\ Becomes(Started(configFile), Step("start", NoApi, FALSE))
  /\ lockedGroups' = EmptyObject
  /\ lockedNicknames' = EmptyObject
  /\ ev' = NoEvent
  /\ calls' = <<>>
  /\ out' = <<>>
  /\ released' = {}
  /\ running' = <<>>

(***************************************************************************)
(* SpecCfg: configuration, login, credential persistence and restarts of   *)
(* the process.                                                            *)
(***************************************************************************)
NextCfg ==
  \/ Configure
  \/ LoginFail
  \/ LoginSucceed
  \/ RetryFire
  \/ SaveFire
  \/ ProcessStart

SpecCfg == Init /\ [][NextCfg]_vars

(***************************************************************************)
(* C16.  After every successful login config.json holds the credential     *)
(* blob of the live handle, and at most one interval of saveCookies is     *)
(* active.                                                                 *)
(***************************************************************************)
C16_SavedOnLogin ==
  /\ savers <= 1
  /\ op.name = "loginOk" => configFile.cookies = AppState(botAPI)

(***************************************************************************)
(* C17.  A persistence cycle leaves the prefix and the adminID in          *)
(* config.json as the last successful /configure request wrote them (a     *)
(* file written by /configure has both).                                   *)
(***************************************************************************)
C17_ConfigSurvivesSave ==
  [][ (op'.name = "save" /\ configFile.prefix # "" /\ configFile.adminID # "")
        => /\ configFile'.prefix = configFile.prefix
           /\ configFile'.adminID = configFile.adminID
    ]_vars

(***************************************************************************)
(* C19.  A /configure request that is rejected (it starts no login) leaves *)
(* the prefix, the adminID, config.json and the session as they were.      *)
(***************************************************************************)
C19_RejectedConfigureNoEffect ==
  [][ (op'.name = "configure" /\ logins' = logins)
        => /\ prefix' = prefix
           /\ adminID' = adminID
           /\ configFile' = configFile
           /\ <<botAPI, currentCookies, reconnectAttempt, listeners>>'
                = <<botAPI, currentCookies, reconnectAttempt, listeners>>
    ]_vars

(***************************************************************************)
(* C18.  When the admin's `group on <name>` has its setTitle rejected, the *)
(* title lock of the group is <name> afterwards and the reply is sent all  *)
(* the same; when the admin's `nickname on <nick>` has its getThreadInfo   *)
(* or one of its renames rejected, the default nickname of the group is    *)
(* <nick> afterwards.  In both cases the failure stays inside the message  *)
(* handler: the session is as it was.                                      *)
(***************************************************************************)
Rejected(o, names) == \E i \in 1..Len(o) : o[i].op \in names /\ ~o[i].ok

GroupOnCase(e, c) ==
  /\ AdminCommand(e, c, "handleGroupCommand", "on")
  /\ WordsOf(e, prefix) # ""

C18_NoRollback ==
  [][ /\ (GroupOnCase(ev', calls') /\ Rejected(out', {"setTitle"}))
           => /\ ev'.threadID \in DOMAIN lockedGroups'
              /\ lockedGroups'[ev'.threadID] = WordsOf(ev', prefix)
              /\ Len(out') >= 2 /\ IsSend(out'[2])
              /\ SessionKept' = SessionKept
      /\ (NickOnCase(ev', calls') /\ Rejected(out', {"getThreadInfo", "changeNickname"}))
           => /\ PolicySet(ev')
              /\ SessionKept' = SessionKept
    ]_vars

\* The admin's `/nickname on N` in t1 had its getThreadInfo rejected: nothing
\* else was called, and the nicknames of t1 are locked to N.
C18_Witness ==
  /\ ev.body = "/nickname on N" /\ ev.senderID = "u1" /\ ev.threadID = "t1"
  /\ calls = <<"handleMessage", "handleNicknameCommand">>
  /\ Len(out) = 1 /\ out[1].op = "getThreadInfo" /\ ~out[1].ok
  /\ "t1" \in DOMAIN lockedNicknames /\ lockedNicknames["t1"].default = "N"

(***************************************************************************)
(* C20.  Vocabulary: the session has been started; a listener is live; a   *)
(* restart or retry timer is pending or a login is in flight.              *)
(***************************************************************************)
SessionStarted == currentCookies # ""

Recovering == restartTimers > 0 \/ retryTimers > 0 \/ LoginsInFlight > 0

SelfInputs ==
  { [NoEvent EXCEPT !.type = "message", !.threadID = t, !.senderID = u, !.body = b] :
      t \in Threads, u \in Senders, b \in {"hello", "hi MKC", " Bot ", "/xyz", "/tid"} }
  \cup
  { [NoEvent EXCEPT !.type = "message", !.threadID = "t1", !.senderID = "u2",
                    !.body = "hello", !.mentions = {"u1"}] }

\* The event in which the sent message c comes back.
SelfEvent(c) ==
  [NoEvent EXCEPT !.type = "message", !.threadID = c.thread, !.senderID = BotID,
                  !.body = FinalMessage(SenderName(c.who), MainMessage(c.arg)),
                  !.mentions = {c.who}]

OnUserMessage == Receive(SelfInputs)

\* A message sent by the last handler comes back and is handled.
OnSelfMessage ==
  \E i \in DOMAIN out :
    /\ out[i].op = "sendMessage" /\ out[i].ok
    /\ Receive({SelfEvent(out[i])})

NextSelf == OnUserMessage \/ OnSelfMessage

SpecSelf == InitEv /\ [][NextSelf]_vars

\* C21.  The handling of a message whose sender is the session's own account
\* sends no message.
C21_NoReplyToSelf ==
  [][ (ev'.type = "message" /\ ev'.senderID = BotID)
        => \A i \in DOMAIN out' : out'[i].op # "sendMessage" ]_vars

=============================================================================
